---------------------------- MODULE Spec2Model ----------------------------
(***************************************************************************)
(* A model of gdrive_client/main.py: the timestamp codec of class Utils,   *)
(* the name partition of Drive.synchronize, and the recursive              *)
(* reconciliation pass itself (Drive.synchronize, compare_files,           *)
(* download_file, upload_file, upload_folder) over a local file tree and a *)
(* remote store.                                                           *)
(*                                                                         *)
(* Text is a sequence of one-character strings.  A Python number of        *)
(* seconds since the epoch is the record [day, sod, us] standing for       *)
(* 86400*day + sod + us/10^6, so that the whole range of datetime fits the *)
(* checker's integers.                                                     *)
(***************************************************************************)
EXTENDS Integers, Sequences, FiniteSets, TLC

(***************************************************************************)
(* Bounds of the model.                                                    *)
(***************************************************************************)
MaxDay == 800            \* SpecCodec: days 0..MaxDay after the epoch, and a few far ones
MaxTime == 2             \* tree timestamps are 1..MaxTime seconds
MaxContent == 2          \* file contents are 1..MaxContent
MaxDepth == 2            \* paths are 1..MaxDepth names long
MaxLocalNodes == 2       \* entries of the initial local tree
MaxRemoteNodes == 2      \* objects of the initial remote tree
MaxPasses == 2           \* passes run in succession

(***************************************************************************)
(* Characters and digits.                                                  *)
(***************************************************************************)
DigitChars == <<"0", "1", "2", "3", "4", "5", "6", "7", "8", "9">>

IsDigit(c) == \E i \in 1..10 : DigitChars[i] = c

DigitVal(c) == (CHOOSE i \in 1..10 : DigitChars[i] = c) - 1

Dig(n) == DigitChars[(n % 10) + 1]

Pad2(n) == <<Dig(n \div 10), Dig(n)>>

Pad3(n) == <<Dig(n \div 100), Dig(n \div 10), Dig(n)>>

Pad4(n) == <<Dig(n \div 1000), Dig(n \div 100), Dig(n \div 10), Dig(n)>>

Pad6(n) == Pad3(n \div 1000) \o Pad3(n % 1000)

\* int() of a run of digit characters
RECURSIVE NumVal(_)
NumVal(s) == IF s = <<>> THEN 0
             ELSE 10 * NumVal(SubSeq(s, 1, Len(s) - 1)) + DigitVal(s[Len(s)])

AllDigits(s) == \A i \in 1..Len(s) : IsDigit(s[i])

(***************************************************************************)
(* The calendar of datetime and calendar (proleptic Gregorian), computed   *)
(* as CPython computes it: _days_before_year, _days_before_month,          *)
(* _ymd2ord, _ord2ymd.                                                     *)
(***************************************************************************)
ValueErrorText == <<"ValueError">>

ValueErrorTime == [day |-> -1, sod |-> -1, us |-> 0]

ValueErrorDate == [year |-> 0, month |-> 0, day |-> 0, hour |-> 0, minute |-> 0,
                   second |-> 0, microsecond |-> 0]

IsLeap(y) == y % 4 = 0 /\ (y % 100 # 0 \/ y % 400 = 0)

DaysInMonth(y, m) ==
    IF m = 2 THEN (IF IsLeap(y) THEN 29 ELSE 28)
    ELSE IF m \in {4, 6, 9, 11} THEN 30 ELSE 31

DaysBeforeMonthTable == <<0, 31, 59, 90, 120, 151, 181, 212, 243, 273, 304, 334>>

DaysBeforeMonth(y, m) ==
    DaysBeforeMonthTable[m] + (IF m > 2 /\ IsLeap(y) THEN 1 ELSE 0)

DaysBeforeYear(y) ==
    (y - 1) * 365 + ((y - 1) \div 4) - ((y - 1) \div 100) + ((y - 1) \div 400)

Ymd2Ord(y, m, d) == DaysBeforeYear(y) + DaysBeforeMonth(y, m) + d

EpochOrd == Ymd2Ord(1970, 1, 1)

\* _ord2ymd(n): ordinal -> <<year, month, day>>
Ord2Ymd(ord) ==
    LET n0 == ord - 1
        di400 == 400 * 365 + 97
        di100 == 100 * 365 + 24
        di4 == 4 * 365 + 1
        n400 == n0 \div di400
        r400 == n0 % di400
        n100 == r400 \div di100
        r100 == r400 % di100
        n4 == r100 \div di4
        r4 == r100 % di4
        n1 == r4 \div 365
        n == r4 % 365
        year == n400 * 400 + 1 + n100 * 100 + n4 * 4 + n1
        leapyear == n1 = 3 /\ (n4 # 24 \/ n100 = 3)
        month0 == (n + 50) \div 32
        preceding0 == DaysBeforeMonthTable[month0]
                         + (IF month0 > 2 /\ leapyear THEN 1 ELSE 0)
        month == IF preceding0 > n THEN month0 - 1 ELSE month0
        preceding == IF preceding0 > n
                     THEN preceding0 - (DaysInMonth(year, month)) ELSE preceding0
    IN IF n1 = 4 \/ n100 = 4 THEN <<year - 1, 12, 31>>
       ELSE <<year, month, n - preceding + 1>>

\* datetime.utcfromtimestamp(t); datetime raises ValueError past year 9999
utcfromtimestamp(t) ==
    LET ymd == Ord2Ymd(EpochOrd + t.day)
    IN IF ymd[1] < 1 \/ ymd[1] > 9999 THEN ValueErrorDate
       ELSE [year |-> ymd[1], month |-> ymd[2], day |-> ymd[3],
             hour |-> t.sod \div 3600, minute |-> (t.sod \div 60) % 60,
             second |-> t.sod % 60, microsecond |-> t.us]

\* datetime.isoformat("T"): the fraction is printed only when it is not zero
isoformat(dt) ==
    Pad4(dt.year) \o <<"-">> \o Pad2(dt.month) \o <<"-">> \o Pad2(dt.day) \o <<"T">>
      \o Pad2(dt.hour) \o <<":">> \o Pad2(dt.minute) \o <<":">> \o Pad2(dt.second)
      \o (IF dt.microsecond = 0 THEN <<>> ELSE <<".">> \o Pad6(dt.microsecond))

\* re.sub(r"\.\d+", "", date): every "." followed by digits goes, with its digits
RECURSIVE SkipDigits(_)
SkipDigits(s) == IF s # <<>> /\ IsDigit(Head(s)) THEN SkipDigits(Tail(s)) ELSE s

RECURSIVE StripFraction(_)
StripFraction(s) ==
    IF s = <<>> THEN <<>>
    ELSE IF Head(s) = "." /\ Len(s) >= 2 /\ IsDigit(s[2])
         THEN StripFraction(SkipDigits(Tail(s)))
         ELSE <<Head(s)>> \o StripFraction(Tail(s))

\* time.strptime(date, "%Y-%m-%dT%H:%M:%SZ") on zero-padded fields, which is what
\* both isoformat and the remote store write (strptime itself also takes
\* one-digit fields; no such text is fed to it here)
strptime(s) ==
    IF /\ Len(s) = 20
       /\ s[5] = "-" /\ s[8] = "-" /\ s[11] = "T" /\ s[14] = ":" /\ s[17] = ":"
       /\ s[20] = "Z"
       /\ AllDigits(SubSeq(s, 1, 4)) /\ AllDigits(SubSeq(s, 6, 7))
       /\ AllDigits(SubSeq(s, 9, 10)) /\ AllDigits(SubSeq(s, 12, 13))
       /\ AllDigits(SubSeq(s, 15, 16)) /\ AllDigits(SubSeq(s, 18, 19))
    THEN LET y == NumVal(SubSeq(s, 1, 4))
             m == NumVal(SubSeq(s, 6, 7))
             d == NumVal(SubSeq(s, 9, 10))
             hh == NumVal(SubSeq(s, 12, 13))
             mm == NumVal(SubSeq(s, 15, 16))
             ss == NumVal(SubSeq(s, 18, 19))
         IN IF /\ y >= 1 /\ m \in 1..12 /\ d >= 1 /\ d <= DaysInMonth(y, m)
               /\ hh <= 23 /\ mm <= 59 /\ ss <= 61
            THEN [year |-> y, month |-> m, day |-> d, hour |-> hh, minute |-> mm,
                  second |-> ss, microsecond |-> 0]
            ELSE ValueErrorDate
    ELSE ValueErrorDate

\* a variant of calendar.timegm: time.mktime in a zone one hour east of UTC
mktime(tm) ==
    LET days == Ymd2Ord(tm.year, tm.month, 1) - EpochOrd + tm.day - 1
        secs == (tm.hour * 60 + tm.minute) * 60 + tm.second - 3600
    IN IF secs < 0 THEN [day |-> days - 1, sod |-> secs + 86400, us |-> 0]
       ELSE [day |-> days + (secs \div 86400), sod |-> secs % 86400, us |-> 0]

\* calendar.timegm(time_object)
timegm(tm) ==
    LET days == Ymd2Ord(tm.year, tm.month, 1) - EpochOrd + tm.day - 1
        secs == (tm.hour * 60 + tm.minute) * 60 + tm.second
    IN [day |-> days + (secs \div 86400), sod |-> secs % 86400, us |-> 0]

\* Utils.convert_datetime_timestamp(date)
convert_datetime_timestamp(date) ==
    LET time_object == strptime(StripFraction(date))
    IN IF time_object = ValueErrorDate THEN ValueErrorTime ELSE timegm(time_object)

\* Utils.convert_timestamp_datetime(timestamp)
convert_timestamp_datetime(timestamp) ==
    LET datetime_object == utcfromtimestamp(timestamp)
    IN IF datetime_object = ValueErrorDate THEN ValueErrorText
       ELSE isoformat(datetime_object) \o <<"Z">>


(***************************************************************************)
(* The two trees.  A path is the sequence of names below the root pair; a  *)
(* remote object's id is its path (names are unique within a remote        *)
(* folder, and nothing is ever renamed).  Times are kept in milliseconds:  *)
(* os.path.getmtime gives a float, and the store's modifiedTime carries    *)
(* milliseconds.                                                           *)
(***************************************************************************)
Names == {"a", "b"}

Root == <<>>

Paths == UNION {[1..k -> Names] : k \in 1..MaxDepth}

Times == 1..MaxTime

Contents == 1..MaxContent

\* contents of the initial local files: only equality with the remote content
\* of the same path is ever looked at
LocalContents == {1}

\* the sub-second part, in ms, of every initial timestamp
Fracs == {500}

\* the clock while passes run: later than every initial timestamp
Now == MaxTime + 1

NoLocal == [kind |-> "none", content |-> 0, ms |-> 0]

NoRemote == [kind |-> "none", content |-> 0, ms |-> 0, md5 |-> FALSE]

Parent(p) == SubSeq(p, 1, Len(p) - 1)

Child(p, n) == Append(p, n)

IsPrefix(q, p) == Len(q) <= Len(p) /\ SubSeq(p, 1, Len(q)) = q

ChildNames(p) == IF Len(p) < MaxDepth THEN Names ELSE {}

PrefixClosed(S) == \A p \in S : Len(p) > 1 => Parent(p) \in S

Shapes(max) == {S \in SUBSET Paths : Cardinality(S) <= max /\ PrefixClosed(S)}

HasChildIn(S, p) == \E q \in S : Len(q) > 1 /\ Parent(q) = p

LocalNodes(frac) ==
    {[kind |-> "file", content |-> c, ms |-> 1000 * t + frac] :
        c \in LocalContents, t \in Times}
      \cup {[kind |-> "dir", content |-> 0, ms |-> 1000 * t + frac] : t \in Times}

RemoteNodes(frac) ==
    {[kind |-> "file", content |-> c, ms |-> 1000 * t + frac, md5 |-> m] :
        c \in Contents, t \in Times, m \in BOOLEAN}
      \cup {[kind |-> "folder", content |-> 0, ms |-> 1000 * t + frac, md5 |-> FALSE] :
              t \in Times}

LocalTrees(frac, max) ==
    UNION {{[p \in Paths |-> IF p \in S THEN g[p] ELSE NoLocal] :
              g \in {h \in [S -> LocalNodes(frac)] :
                        \A p \in S : HasChildIn(S, p) => h[p].kind = "dir"}} :
           S \in Shapes(max)}

RemoteTrees(frac, max) ==
    UNION {{[p \in Paths |-> IF p \in S THEN g[p] ELSE NoRemote] :
              g \in {h \in [S -> RemoteNodes(frac)] :
                        \A p \in S : HasChildIn(S, p) => h[p].kind = "folder"}} :
           S \in Shapes(max)}

(***************************************************************************)
(* Time on the wire and on disk.                                           *)
(***************************************************************************)
TimeOf(sec) == [day |-> sec \div 86400, sod |-> sec % 86400, us |-> 0]

Seconds(t) == t.day * 86400 + t.sod

\* the store's modifiedTime text: RFC 3339 with milliseconds
WireTime(ms) ==
    LET s == isoformat(utcfromtimestamp(TimeOf(ms \div 1000)))
    IN s \o <<".">> \o Pad3(ms % 1000) \o <<"Z">>

\* the store reading the modifiedTime of a create request
StoreTime(text) ==
    LET tm == strptime(StripFraction(text))
    IN 1000 * Seconds(timegm(tm))

\* The conversions of the times that occur in the trees, computed once.
MsDomain == {1000 * t + frac : t \in 0..Now, frac \in Fracs \cup {0}}

WireTexts == {WireTime(ms) : ms \in MsDomain}

wire_time == [ms \in MsDomain |-> WireTime(ms)]

datetime_timestamp == [date \in WireTexts |-> convert_datetime_timestamp(date)]

timestamp_datetime == [sec \in 0..Now |-> convert_timestamp_datetime(TimeOf(sec))]

store_time == [sec \in 0..Now |-> StoreTime(timestamp_datetime[sec])]

\* the content hash: one digest per content
NoMd5 == <<>>

Md5(content) == <<"md5", content>>

\* Utils.get_local_file_timestamp(path), given the entry at path: int(getmtime).
\* (The two conversions it also computes, lines 49-50, are never used.)
get_local_file_timestamp(entry) == entry.ms \div 1000

\* one item of the files().list response
Item(id, name, obj) ==
    [id |-> id, name |-> name, modifiedTime |-> wire_time[obj.ms],
     mimeType |-> IF obj.kind = "folder" THEN "application/vnd.google-apps.folder"
                  ELSE "application/octet-stream",
     md5Checksum |-> IF obj.md5 THEN Md5(obj.content) ELSE NoMd5]

\* ARGS.download_only: the default True when the option is not given, else the
\* option's text (type=str); Python's truth of it
ArgDefault == [given |-> FALSE, text |-> ""]

ArgText(s) == [given |-> TRUE, text |-> s]

Truthy(arg) == IF arg.given THEN arg.text # "" ELSE TRUE

(***************************************************************************)
(* Pure steps of Drive.                                                    *)
(***************************************************************************)
\* a variant of same_files: the union, where line 280 has the intersection
SameFilesUnion(drive_names, local_files) == drive_names \cup local_files

\* same_files, line 280
SameFiles(drive_names, local_files) == drive_names \cap local_files

\* a variant of different_files: the union, where line 330 has the symmetric
\* difference
DifferentFilesUnion(drive_names, local_files) == drive_names \cup local_files

\* different_files, line 330
DifferentFiles(drive_names, local_files) ==
    (drive_names \ local_files) \cup (local_files \ drive_names)

\* line 337: a name of different_files is the remote's when the listing names it
IsRemoteOnly(diff_file, drive_names) == diff_file \in drive_names

\* a variant of the try of lines 297-306 without its except clause
ModifiedUncaught(result) == result

\* lines 297-306: the FileNotFoundError of getmtime or open() is caught and
\* makes the name "remote"; any other result stands
Modified(result) == IF result = "FileNotFoundError" THEN "remote" ELSE result

\* a variant of compare_files that decides by the times alone
compare_files_by_time(local_file_data, remote_file_data) ==
    IF local_file_data.modifiedTime > remote_file_data.modifiedTime THEN "local"
    ELSE IF local_file_data.modifiedTime < remote_file_data.modifiedTime
         THEN "remote" ELSE "False"

\* a variant of compare_files with the two results the wrong way round
compare_files_swapped(local_file_data, remote_file_data) ==
    LET modified ==
          IF local_file_data.modifiedTime > remote_file_data.modifiedTime THEN "remote"
          ELSE IF local_file_data.modifiedTime < remote_file_data.modifiedTime
               THEN "local" ELSE "False"
        remote_md5 == remote_file_data.md5Checksum
    IN IF modified # "False" /\ remote_md5 # NoMd5
       THEN IF local_file_data.file.kind = "none" THEN "FileNotFoundError"
            ELSE IF local_file_data.file.kind = "dir" THEN "IsADirectoryError"
            ELSE IF remote_md5 = Md5(local_file_data.file.content) THEN "False"
            ELSE modified
       ELSE modified

\* Drive.compare_files; the result is "False", "local", "remote" or the error
\* that open() raises.  local_file_data.file is the entry now at the path.
compare_files(local_file_data, remote_file_data) ==
    LET modified ==
          IF local_file_data.modifiedTime > remote_file_data.modifiedTime THEN "local"
          ELSE IF local_file_data.modifiedTime < remote_file_data.modifiedTime
               THEN "remote" ELSE "False"
        remote_md5 == remote_file_data.md5Checksum
    IN IF modified # "False" /\ remote_md5 # NoMd5
       THEN IF local_file_data.file.kind = "none" THEN "FileNotFoundError"
            ELSE IF local_file_data.file.kind = "dir" THEN "IsADirectoryError"
            ELSE IF remote_md5 = Md5(local_file_data.file.content) THEN "False"
            ELSE modified
       ELSE modified

\* os.makedirs(p): p and its missing ancestors appear, the directory that
\* receives the first new entry is modified
MakeDirs(loc, p) ==
    [q \in Paths |->
        IF IsPrefix(q, p) /\ loc[q].kind = "none"
        THEN [kind |-> "dir", content |-> 0, ms |-> 1000 * Now]
        ELSE IF /\ IsPrefix(q, p) /\ q # p /\ loc[q].kind = "dir"
                /\ loc[SubSeq(p, 1, Len(q) + 1)].kind = "none"
             THEN [loc[q] EXCEPT !.ms = 1000 * Now]
             ELSE loc[q]]

\* a variant of the write of lines 138-148 whose os.utime passes the time of
\* the write, not the remote time
WriteFileUntimed(loc, path, content, sec) ==
    [q \in Paths |->
        IF q = path THEN [kind |-> "file", content |-> content, ms |-> 1000 * Now]
        ELSE IF Len(path) > 1 /\ q = Parent(path) /\ loc[path].kind = "none"
             THEN [loc[q] EXCEPT !.ms = 1000 * Now]
             ELSE loc[q]]

\* open(path, "wb"), write, os.utime: the file at path holds content, at time sec
WriteFile(loc, path, content, sec) ==
    [q \in Paths |->
        IF q = path THEN [kind |-> "file", content |-> content, ms |-> 1000 * sec]
        ELSE IF Len(path) > 1 /\ q = Parent(path) /\ loc[path].kind = "none"
             THEN [loc[q] EXCEPT !.ms = 1000 * Now]
             ELSE loc[q]]

\* a variant of download_file that leaves out os.utime (line 148)
download_file_without_utime(loc, rem, local_path, filename, file_id, fault) ==
    LET local_absolute_path == Child(local_path, filename)
    IN IF fault # "none" THEN [err |-> "HttpError", local |-> loc]
       ELSE IF loc[local_absolute_path].kind = "dir"
            THEN [err |-> "IsADirectoryError", local |-> loc]
       ELSE [err |-> "",
             local |-> WriteFile(loc, local_absolute_path, rem[file_id].content, Now)]

\* a variant of download_file that removes the file it wrote when files().get
\* fails
download_file_cleaning_up(loc, rem, local_path, filename, file_id, fault) ==
    LET local_absolute_path == Child(local_path, filename)
        modified_timestamp == datetime_timestamp[wire_time[rem[file_id].ms]]
    IN IF fault = "content" THEN [err |-> "HttpError", local |-> loc]
       ELSE IF loc[local_absolute_path].kind = "dir"
            THEN [err |-> "IsADirectoryError", local |-> loc]
       ELSE IF fault = "metadata"
            THEN [err |-> "HttpError",
                  local |-> [loc EXCEPT ![local_absolute_path] = NoLocal]]
       ELSE [err |-> "",
             local |-> WriteFile(loc, local_absolute_path, rem[file_id].content,
                                 Seconds(modified_timestamp))]

\* Drive.download_file(filename, local_path, file_id) with the local tree loc and
\* the store rem; fault is "none", "content" (get_media fails) or "metadata"
\* (files().get fails).  Gives the error raised ("" for none) and the tree left.
download_file(loc, rem, local_path, filename, file_id, fault) ==
    LET local_absolute_path == Child(local_path, filename)
        modified_timestamp == datetime_timestamp[wire_time[rem[file_id].ms]]
    IN IF fault = "content" THEN [err |-> "HttpError", local |-> loc]
       ELSE IF loc[local_absolute_path].kind = "dir"
            THEN [err |-> "IsADirectoryError", local |-> loc]
       ELSE IF local_path # Root /\ loc[local_path].kind # "dir"
            THEN [err |-> "FileNotFoundError", local |-> loc]
       ELSE IF fault = "metadata"
            THEN [err |-> "HttpError",
                  local |-> WriteFile(loc, local_absolute_path, rem[file_id].content, Now)]
       ELSE IF modified_timestamp = ValueErrorTime
            THEN [err |-> "ValueError",
                  local |-> WriteFile(loc, local_absolute_path, rem[file_id].content, Now)]
       ELSE [err |-> "",
             local |-> WriteFile(loc, local_absolute_path, rem[file_id].content,
                                 Seconds(modified_timestamp))]

\* a variant of upload_file without the try of lines 182-213: the failure of
\* files().create leaves the function
upload_file_uncaught(arg, loc, rem, local_path, filename, folder_id, update, fault) ==
    LET entry == loc[Child(local_path, filename)]
    IN IF Truthy(arg) THEN [ret |-> "False", err |-> "", remote |-> rem, call |-> "none"]
       ELSE IF entry.kind # "file"
            THEN [ret |-> "", err |-> "FileNotFoundError", remote |-> rem, call |-> "none"]
       ELSE IF fault = "create"
            THEN [ret |-> "", err |-> "HttpError", remote |-> rem, call |-> "failed"]
       ELSE [ret |-> "uploaded", err |-> "", call |-> "create",
             remote |-> [rem EXCEPT ![Child(folder_id, filename)] =
                            [kind |-> "file", content |-> entry.content,
                             ms |-> store_time[get_local_file_timestamp(entry)],
                             md5 |-> TRUE]]]

\* Drive.upload_file(filename, local_path, folder_id, update); update is Root
\* for the default False, else the id of the object to update.  Gives what is
\* returned ("False" or "uploaded"), the error raised, the store left and the
\* call made.
upload_file(arg, loc, rem, local_path, filename, folder_id, update, fault) ==
    LET local_absolute_path == Child(local_path, filename)
        entry == loc[local_absolute_path]
        modified_timestamp == get_local_file_timestamp(entry)
    IN IF Truthy(arg) THEN [ret |-> "False", err |-> "", remote |-> rem, call |-> "none"]
       ELSE IF entry.kind = "none"
            THEN [ret |-> "", err |-> "FileNotFoundError", remote |-> rem, call |-> "none"]
       ELSE IF entry.kind = "dir"
            THEN [ret |-> "", err |-> "IsADirectoryError", remote |-> rem, call |-> "none"]
       ELSE IF fault = "create"
            THEN [ret |-> "False", err |-> "", remote |-> rem, call |-> "failed"]
       ELSE IF update # Root
            THEN [ret |-> "uploaded", err |-> "", call |-> "update",
                  remote |-> [rem EXCEPT ![update].content = entry.content,
                                         ![update].ms = 1000 * Now]]
       ELSE [ret |-> "uploaded", err |-> "", call |-> "create",
             remote |-> [rem EXCEPT ![Child(folder_id, filename)] =
                            [kind |-> "file", content |-> entry.content,
                             ms |-> store_time[modified_timestamp], md5 |-> TRUE]]]

\* a variant of upload_folder without the test of ARGS.download_only
upload_folder_unconditional(arg, rem, foldername, folder_id, fault) ==
    IF fault = "create" THEN [ret |-> "False", remote |-> rem, call |-> "failed"]
    ELSE [ret |-> "created", call |-> "create",
          remote |-> [rem EXCEPT ![Child(folder_id, foldername)] =
                         [kind |-> "folder", content |-> 0, ms |-> 1000 * Now,
                          md5 |-> FALSE]]]

\* Drive.upload_folder(foldername, folder_id)
upload_folder(arg, rem, foldername, folder_id, fault) ==
    IF Truthy(arg) THEN [ret |-> "False", remote |-> rem, call |-> "none"]
    ELSE IF fault = "create" THEN [ret |-> "False", remote |-> rem, call |-> "failed"]
    ELSE [ret |-> "created", call |-> "create",
          remote |-> [rem EXCEPT ![Child(folder_id, foldername)] =
                         [kind |-> "folder", content |-> 0, ms |-> 1000 * Now,
                          md5 |-> FALSE]]]


(***************************************************************************)
(* The state.                                                              *)
(***************************************************************************)
VARIABLES
    download_only,  \* ARGS.download_only
    local,          \* the local tree: path -> entry
    remote,         \* the remote store: id (path) -> object
    stack,          \* the calls of synchronize in progress, innermost last
    status,         \* "running", "done", "raised" (an error left run()), "idle"
    error,          \* the error that ended the pass, "" for none
    pass,           \* the number of the pass
    downloads,      \* local paths download_file has written in this pass
    creates,        \* ids files().create has made in this pass
    updates,        \* ids files().update has changed in this pass
    visited,        \* local paths listed in this pass, in order
    expect,         \* remote-only files seen by the listings of this pass
    last,           \* the last comparison of a name on both sides
    upload,         \* the last call of upload_file or upload_folder
    snap,           \* the two trees when the pass began, and what the pass before moved
    prev_raised,    \* an earlier pass ended in an error
    vanish_left,    \* local entries the environment may still remove
    fault_left,     \* remote calls the environment may still fail
    faulted,        \* the remote call that failed last, "" for none
    calc            \* the pure functions' inputs and results

vars == <<download_only, local, remote, stack, status, error, pass, downloads,
          creates, updates, visited, expect, last, upload, snap, prev_raised,
          vanish_left, fault_left, faulted, calc>>

NoLast == [path |-> Root, lm |-> -1, rm |-> -1, md5 |-> FALSE, same_md5 |-> FALSE,
           fnf |-> "", modified |-> "", act |-> ""]

NoUpload == [path |-> Root, fn |-> "", ret |-> ""]

\* a call synchronize(local_path, folder_id, recursive) before its listing; via
\* is the place of the call: "run", "same", "remote_only" or "local_only"
NewCall(local_path, folder_id, recursive, via) ==
    [local_path |-> local_path, folder_id |-> folder_id, recursive |-> recursive,
     pc |-> "list", drive_files |-> [n \in Names |-> NoRemote], local_files |-> {},
     same_left |-> {}, diff_left |-> {}, sm_file |-> "", lmtime |-> 0, via |-> via]

Top == stack[Len(stack)]

SetTop(f) == [stack EXCEPT ![Len(stack)] = f]

DriveNames(f) == {n \in Names : f.drive_files[n].kind # "none"}

Running == status = "running" /\ stack # <<>>

(***************************************************************************)
(* Drive.synchronize, a step at a time.  The steps that make a remote call *)
(* take fault: "none", or the call that fails.                             *)
(***************************************************************************)
\* an error nobody catches: it leaves every call of synchronize, and run()
Raise(err, loc, last1, up) ==
    /\ status' = "raised"
    /\ error' = err
    /\ stack' = <<>>
    /\ local' = loc
    /\ last' = last1
    /\ upload' = up
    /\ UNCHANGED <<download_only, remote, pass, downloads, creates, updates, visited,
                   expect, snap, prev_raised, vanish_left, calc>>

\* lines 271-280 and 330: the directory is made if missing, both sides are
\* listed, the names are split
Listing ==
    /\ Running /\ Top.pc = "list"
    /\ LET f == Top
           lp == f.local_path
           loc == IF lp # Root /\ local[lp].kind = "none" THEN MakeDirs(local, lp)
                  ELSE local
           drive_files == [n \in Names |->
                              IF n \in ChildNames(f.folder_id)
                              THEN remote[Child(f.folder_id, n)] ELSE NoRemote]
           drive_names == {n \in Names : drive_files[n].kind # "none"}
           local_files == {n \in ChildNames(lp) : loc[Child(lp, n)].kind # "none"}
       IN IF lp # Root /\ loc[lp].kind = "file"
          THEN Raise("NotADirectoryError", loc, last, upload)
          ELSE /\ stack' = SetTop([f EXCEPT !.pc = "loop",
                                            !.drive_files = drive_files,
                                            !.local_files = local_files,
                                            !.same_left = SameFiles(drive_names, local_files),
                                            !.diff_left = DifferentFiles(drive_names, local_files)])
               /\ local' = loc
               /\ visited' = Append(visited, lp)
               /\ expect' = expect \cup
                     {[path |-> Child(lp, n), content |-> drive_files[n].content,
                       sec |-> drive_files[n].ms \div 1000] :
                        n \in {m \in drive_names \ local_files :
                                  drive_files[m].kind = "file"}}
               /\ UNCHANGED <<download_only, remote, status, error, pass, downloads,
                              creates, updates, last, upload, snap, prev_raised,
                              vanish_left, calc>>
    /\ UNCHANGED <<fault_left, faulted>>

\* the frame goes on with the next name
Continue(f, last1, up) ==
    /\ stack' = SetTop(f)
    /\ last' = last1
    /\ upload' = up
    /\ UNCHANGED <<download_only, local, remote, status, error, pass, downloads, creates,
                   updates, visited, expect, snap, prev_raised, vanish_left, calc>>

\* a variant of the recursive call that passes local_path and folder_id, the
\* directory being visited, where lines 321-323 pass the entry's
RecurseSameDirectory(f, local_absolute_path, id, via, rem, made, last1, up) ==
    /\ stack' = Append(SetTop(f), NewCall(f.local_path, f.folder_id, TRUE, via))
    /\ last' = last1
    /\ upload' = up
    /\ remote' = rem
    /\ creates' = creates \cup made
    /\ UNCHANGED <<download_only, local, status, error, pass, downloads, updates,
                   visited, expect, snap, prev_raised, vanish_left, calc>>

\* self.synchronize(local_absolute_path, id, recursive=True); made holds the
\* folder upload_folder has just created for it
Recurse(f, local_absolute_path, id, via, rem, made, last1, up) ==
    /\ stack' = Append(SetTop(f), NewCall(local_absolute_path, id, TRUE, via))
    /\ last' = last1
    /\ upload' = up
    /\ remote' = rem
    /\ creates' = creates \cup made
    /\ UNCHANGED <<download_only, local, status, error, pass, downloads, updates,
                   visited, expect, snap, prev_raised, vanish_left, calc>>

\* a variant of the call of download_file inside a try: the error is dropped
\* and the loop goes on
DownloadedCaught(f, name, d, last1) ==
    /\ stack' = SetTop(f)
    /\ local' = d.local
    /\ downloads' = IF d.err # "" THEN downloads
                    ELSE downloads \cup {Child(f.local_path, name)}
    /\ last' = last1
    /\ UNCHANGED <<download_only, remote, status, error, pass, creates, updates,
                   visited, expect, upload, snap, prev_raised, vanish_left, calc>>

\* self.download_file(name, local_path, id): the result d of download_file
Downloaded(f, name, d, last1) ==
    IF d.err # "" THEN Raise(d.err, d.local, last1, upload)
    ELSE /\ stack' = SetTop(f)
         /\ local' = d.local
         /\ downloads' = downloads \cup {Child(f.local_path, name)}
         /\ last' = last1
         /\ UNCHANGED <<download_only, remote, status, error, pass, creates, updates,
                        visited, expect, upload, snap, prev_raised, vanish_left, calc>>

\* self.upload_file(...): the result u of upload_file for the object id
Uploaded(f, id, u, last1) ==
    LET up == [path |-> id, fn |-> "upload_file",
               ret |-> IF u.err # "" THEN "raise" ELSE u.ret]
    IN IF u.err # "" THEN Raise(u.err, local, last1, up)
       ELSE /\ stack' = SetTop(f)
            /\ remote' = u.remote
            /\ creates' = IF u.call = "create" THEN creates \cup {id} ELSE creates
            /\ updates' = IF u.call = "update" THEN updates \cup {id} ELSE updates
            /\ last' = last1
            /\ upload' = up
            /\ UNCHANGED <<download_only, local, status, error, pass, downloads, visited,
                           expect, snap, prev_raised, vanish_left, calc>>

\* a variant of SameAct whose "local" branch goes on to lines 310-317: the
\* directory is entered, the file is sent as an update
SameActUploading(f, sm_file, modified, l, fault) ==
    LET local_absolute_path == Child(f.local_path, sm_file)
        id == Child(f.folder_id, sm_file)
    IN /\ fault = "none"
       /\ IF modified = "local"
          THEN IF local[local_absolute_path].kind = "dir"
               THEN Recurse(f, local_absolute_path, id, "same", remote, {},
                            [l EXCEPT !.act = "recurse"], upload)
               ELSE Uploaded(f, id,
                             upload_file(download_only, local, remote, f.local_path,
                                         sm_file, f.folder_id, id, fault),
                             [l EXCEPT !.act = "upload"])
          ELSE IF modified = "remote"
          THEN IF f.drive_files[sm_file].kind = "folder"
               THEN Recurse(f, local_absolute_path, id, "same", remote, {},
                            [l EXCEPT !.act = "recurse"], upload)
               ELSE Downloaded(f, sm_file,
                               download_file(local, remote, f.local_path, sm_file, id,
                                             fault),
                               [l EXCEPT !.act = "download"])
          ELSE Continue(f, [l EXCEPT !.act = "none"], upload)

\* lines 308-327: what is done for a name on both sides once modified is known;
\* f is the frame with the name taken off, l the record of the comparison
SameAct(f, sm_file, modified, l, fault) ==
    LET local_absolute_path == Child(f.local_path, sm_file)
        remote_file_data == Item(Child(f.folder_id, sm_file), sm_file,
                                 f.drive_files[sm_file])
    IN IF modified = "local"
       THEN fault = "none" /\ Continue(f, [l EXCEPT !.act = "none"], upload)
       ELSE IF modified = "remote"
       THEN IF remote_file_data.mimeType = "application/vnd.google-apps.folder"
            THEN /\ fault = "none"
                 /\ Recurse(f, local_absolute_path, remote_file_data.id, "same",
                            remote, {}, [l EXCEPT !.act = "recurse"], upload)
            ELSE /\ fault \in {"none", "content", "metadata"}
                 /\ Downloaded(f, sm_file,
                               download_file(local, remote, f.local_path, sm_file,
                                             remote_file_data.id, fault),
                               [l EXCEPT !.act = "download"])
       ELSE fault = "none" /\ Continue(f, [l EXCEPT !.act = "none"], upload)

\* lines 285-300 and 304-305: the next name on both sides; its local mtime is
\* read, and a missing path makes it "remote"
SameStatStep(fault) ==
    /\ Running /\ Top.pc = "loop" /\ Top.same_left # {}
    /\ \E sm_file \in Top.same_left :
          LET local_absolute_path == Child(Top.local_path, sm_file)
              f == [Top EXCEPT !.same_left = @ \ {sm_file}]
              rm == Seconds(datetime_timestamp[wire_time[Top.drive_files[sm_file].ms]])
              l == [NoLast EXCEPT !.path = local_absolute_path, !.rm = rm,
                                  !.md5 = Top.drive_files[sm_file].md5]
          IN IF local[local_absolute_path].kind = "none"
             THEN SameAct(f, sm_file, Modified("FileNotFoundError"),
                          [l EXCEPT !.fnf = "stat",
                                    !.modified = Modified("FileNotFoundError")], fault)
             ELSE /\ fault = "none"
                  /\ Continue([f EXCEPT !.pc = "cmp", !.sm_file = sm_file,
                                        !.lmtime = get_local_file_timestamp(
                                                       local[local_absolute_path])],
                              [l EXCEPT !.lm = get_local_file_timestamp(
                                                   local[local_absolute_path])],
                              upload)

\* lines 302-327: compare_files, and what follows from it
SameCompareStep(fault) ==
    /\ Running /\ Top.pc = "cmp"
    /\ LET sm_file == Top.sm_file
           local_absolute_path == Child(Top.local_path, sm_file)
           f == [Top EXCEPT !.pc = "loop", !.sm_file = "", !.lmtime = 0]
           remote_file_data ==
               [Item(Child(Top.folder_id, sm_file), sm_file, Top.drive_files[sm_file])
                  EXCEPT !.modifiedTime = Seconds(datetime_timestamp[@])]
           local_file_data == [file |-> local[local_absolute_path],
                               name |-> sm_file, modifiedTime |-> Top.lmtime]
           result == compare_files(local_file_data, remote_file_data)
           modified == Modified(result)
           l == [last EXCEPT
                   !.same_md5 = /\ local_file_data.file.kind = "file"
                                /\ remote_file_data.md5Checksum
                                      = Md5(local_file_data.file.content),
                   !.fnf = IF result = "FileNotFoundError" THEN "open" ELSE "",
                   !.modified = modified]
       IN IF modified = "IsADirectoryError"
          THEN fault = "none" /\ Raise(modified, local, [l EXCEPT !.act = "raise"], upload)
          ELSE SameAct(f, sm_file, modified, l, fault)

\* lines 335-365: the next name on one side only
DiffStep(fault) ==
    /\ Running /\ Top.pc = "loop" /\ Top.same_left = {} /\ Top.diff_left # {}
    /\ \E diff_file \in Top.diff_left :
          LET f == [Top EXCEPT !.diff_left = @ \ {diff_file}]
              local_absolute_path == Child(Top.local_path, diff_file)
              id == Child(Top.folder_id, diff_file)
          IN IF IsRemoteOnly(diff_file, DriveNames(Top))
             THEN LET remote_file == Item(id, diff_file, Top.drive_files[diff_file])
                  IN IF remote_file.mimeType = "application/vnd.google-apps.folder"
                     THEN /\ fault = "none"
                          /\ Recurse(f, local_absolute_path, remote_file.id,
                                     "remote_only", remote, {}, last, upload)
                     ELSE /\ fault \in {"none", "content", "metadata"}
                          /\ Downloaded(f, remote_file.name,
                                        download_file(local, remote, Top.local_path,
                                                      remote_file.name, remote_file.id,
                                                      fault),
                                        last)
             ELSE IF local[local_absolute_path].kind = "dir"
                  THEN LET c == upload_folder(download_only, remote, diff_file,
                                              Top.folder_id, fault)
                           up == [path |-> id, fn |-> "upload_folder", ret |-> c.ret]
                       IN /\ fault = "none" \/ (fault = "create" /\ c.call = "failed")
                          /\ IF c.ret # "False"
                             THEN Recurse(f, local_absolute_path, id, "local_only",
                                          c.remote, {id}, last, up)
                             ELSE Continue(f, last, up)
                  ELSE LET u == upload_file(download_only, local, remote, Top.local_path,
                                            diff_file, Top.folder_id, Root, fault)
                       IN /\ fault = "none" \/ (fault = "create" /\ u.call = "failed")
                          /\ Uploaded(f, id, u, last)

\* the end of both loops: synchronize returns
Return ==
    /\ Running /\ Top.pc = "loop" /\ Top.same_left = {} /\ Top.diff_left = {}
    /\ stack' = SubSeq(stack, 1, Len(stack) - 1)
    /\ status' = IF Len(stack) = 1 THEN "done" ELSE status
    /\ UNCHANGED <<download_only, local, remote, error, pass, downloads, creates,
                   updates, visited, expect, last, upload, snap, prev_raised,
                   vanish_left, fault_left, faulted, calc>>

SameStat == SameStatStep("none") /\ UNCHANGED <<fault_left, faulted>>

SameCompare == SameCompareStep("none") /\ UNCHANGED <<fault_left, faulted>>

Diff == DiffStep("none") /\ UNCHANGED <<fault_left, faulted>>

\* run() once more, on the trees as the pass before left them
Rerun ==
    /\ status \in {"done", "raised"} /\ pass < MaxPasses
    /\ pass' = pass + 1
    /\ status' = "running"
    /\ error' = ""
    /\ stack' = <<NewCall(Root, Root, FALSE, "run")>>
    /\ downloads' = {} /\ creates' = {} /\ updates' = {}
    /\ visited' = <<>> /\ expect' = {}
    /\ last' = NoLast
    /\ upload' = NoUpload
    /\ snap' = [local |-> local, remote |-> remote,
                moved |-> downloads \cup creates \cup updates]
    /\ prev_raised' = (prev_raised \/ status = "raised")
    /\ UNCHANGED <<download_only, local, remote, vanish_left, fault_left, faulted, calc>>

(***************************************************************************)
(* The environment: a local entry that was listed goes before the pass     *)
(* gets to it; a remote call fails.                                        *)
(***************************************************************************)
Pending(f) ==
    IF f.pc = "cmp" THEN {f.sm_file}
    ELSE IF f.pc = "loop" THEN (f.same_left \cup f.diff_left) \cap f.local_files
    ELSE {}

Remove(loc, p) ==
    [q \in Paths |->
        IF IsPrefix(p, q) THEN NoLocal
        ELSE IF Len(p) > 1 /\ q = Parent(p) THEN [loc[q] EXCEPT !.ms = 1000 * Now]
        ELSE loc[q]]

LocalVanish ==
    /\ Running /\ vanish_left > 0
    /\ \E n \in Pending(Top) :
          /\ local[Child(Top.local_path, n)].kind # "none"
          /\ local' = Remove(local, Child(Top.local_path, n))
    /\ vanish_left' = vanish_left - 1
    /\ UNCHANGED <<download_only, remote, stack, status, error, pass, downloads, creates,
                   updates, visited, expect, last, upload, snap, prev_raised,
                   fault_left, faulted, calc>>

Faults == {"content", "metadata", "create"}

SameStatFails ==
    /\ fault_left > 0
    /\ \E fault \in Faults : SameStatStep(fault) /\ faulted' = fault
    /\ fault_left' = fault_left - 1

SameCompareFails ==
    /\ fault_left > 0
    /\ \E fault \in Faults : SameCompareStep(fault) /\ faulted' = fault
    /\ fault_left' = fault_left - 1

DiffFails ==
    /\ fault_left > 0
    /\ \E fault \in Faults : DiffStep(fault) /\ faulted' = fault
    /\ fault_left' = fault_left - 1

(***************************************************************************)
(* The specifications.                                                     *)
(***************************************************************************)
\* the record of the pure functions when none is being applied
NoCalc ==
    [op |-> "", stage |-> "", t |-> ValueErrorTime, text |-> <<>>,
     back |-> ValueErrorTime, L |-> {}, R |-> {}, same |-> {}, different |-> {},
     remote_only |-> {}, local_only |-> {}]

\* run() of the program: ARGS are parsed, Drive is built, the root pair is
\* about to be synchronized
Start(arg, loc, rem, vanishes, faults) ==
    /\ download_only = arg
    /\ local = loc
    /\ remote = rem
    /\ stack = <<NewCall(Root, Root, FALSE, "run")>>
    /\ status = "running"
    /\ error = ""
    /\ pass = 1
    /\ downloads = {} /\ creates = {} /\ updates = {}
    /\ visited = <<>> /\ expect = {}
    /\ last = NoLast
    /\ upload = NoUpload
    /\ snap = [local |-> loc, remote |-> rem, moved |-> {}]
    /\ prev_raised = FALSE
    /\ vanish_left = vanishes
    /\ fault_left = faults
    /\ faulted = ""
    /\ calc = NoCalc

Args == {ArgDefault, ArgText("")}

\* passes in succession, nothing else touching the trees, no call failing
Init ==
    \E arg \in Args, frac \in Fracs :
       \E loc \in LocalTrees(frac, MaxLocalNodes), rem \in RemoteTrees(frac, MaxRemoteNodes) :
          Start(arg, loc, rem, 0, 0)

Next == Listing \/ SameStat \/ SameCompare \/ Diff \/ Return \/ Rerun

Spec == Init /\ [][Next]_vars

\* one pass, during which one listed local entry may vanish and one remote
\* call may fail
EnvRemoteTrees(frac) ==
    {rem \in RemoteTrees(frac, MaxRemoteNodes) :
        \A p \in Paths : rem[p].kind = "file" => rem[p].content = 1}

InitEnv ==
    \E arg \in Args, frac \in Fracs :
       \E loc \in LocalTrees(frac, MaxLocalNodes), rem \in EnvRemoteTrees(frac) :
          Start(arg, loc, rem, 1, 1)

NextEnv ==
    \/ Listing \/ SameStat \/ SameCompare \/ Diff \/ Return
    \/ LocalVanish \/ SameStatFails \/ SameCompareFails \/ DiffFails

SpecEnv == InitEnv /\ [][NextEnv]_vars

\* the passes as the interpreter runs them: one thread, which takes its next
\* step as long as there is one
SpecLive == Init /\ [][Next]_vars /\ WF_vars(Next)

\* one pass for each way of giving --download-only, over trees of one entry a
\* side at most
ArgsGiven == {ArgDefault, ArgText(""), ArgText("False"), ArgText("True")}

InitArgs ==
    \E arg \in ArgsGiven, frac \in Fracs :
       \E loc \in LocalTrees(frac, 1), rem \in RemoteTrees(frac, 1) :
          Start(arg, loc, rem, 0, 0)

NextArgs == Listing \/ SameStat \/ SameCompare \/ Diff \/ Return

SpecArgs == InitArgs /\ [][NextArgs]_vars

\* no pass is under way: the pure functions are applied on their own
Idle(c) ==
    /\ download_only = ArgDefault
    /\ local = [p \in Paths |-> NoLocal]
    /\ remote = [p \in Paths |-> NoRemote]
    /\ stack = <<>>
    /\ status = "idle"
    /\ error = ""
    /\ pass = 0
    /\ downloads = {} /\ creates = {} /\ updates = {}
    /\ visited = <<>> /\ expect = {}
    /\ last = NoLast
    /\ upload = NoUpload
    /\ snap = [local |-> [p \in Paths |-> NoLocal], remote |-> [p \in Paths |-> NoRemote],
               moved |-> {}]
    /\ prev_raised = FALSE
    /\ vanish_left = 0
    /\ fault_left = 0
    /\ faulted = ""
    /\ calc = c

passVars == <<download_only, local, remote, stack, status, error, pass, downloads,
              creates, updates, visited, expect, last, upload, snap, prev_raised,
              vanish_left, fault_left, faulted>>

\* the two conversions of Utils, one after the other, on a timestamp
DayOf(y, m, d) == Ymd2Ord(y, m, d) - EpochOrd

LastDay == DayOf(9999, 12, 31)

CodecDays ==
    (0..MaxDay) \cup {DayOf(2000, 1, 1), DayOf(2000, 2, 29), DayOf(2038, 1, 19),
                      DayOf(2100, 2, 28), DayOf(2100, 3, 1), LastDay, LastDay + 1}

CodecSods == {0, 59, 3600, 11647, 11648, 86399}

InitCodec ==
    \E d \in CodecDays, s \in CodecSods :
       Idle([NoCalc EXCEPT !.op = "codec", !.stage = "t",
                           !.t = [day |-> d, sod |-> s, us |-> 0]])

\* Utils.convert_timestamp_datetime(t)
CodecFormat ==
    /\ calc.op = "codec" /\ calc.stage = "t"
    /\ LET text == convert_timestamp_datetime(calc.t)
       IN calc' = [calc EXCEPT !.text = text,
                               !.stage = IF text = ValueErrorText THEN "raised"
                                         ELSE "text"]
    /\ UNCHANGED passVars

\* Utils.convert_datetime_timestamp of that text
CodecParse ==
    /\ calc.op = "codec" /\ calc.stage = "text"
    /\ calc' = [calc EXCEPT !.back = convert_datetime_timestamp(calc.text),
                            !.stage = "back"]
    /\ UNCHANGED passVars

NextCodec == CodecFormat \/ CodecParse

SpecCodec == InitCodec /\ [][NextCodec]_vars

\* the split of the names of one directory visit, on any two sets of names
DiffNames == {"a", "b", "c", "d"}

InitDiff ==
    \E L \in SUBSET DiffNames, R \in SUBSET DiffNames :
       Idle([NoCalc EXCEPT !.op = "diff", !.stage = "listed", !.L = L, !.R = R])

\* lines 280 and 330
Split ==
    /\ calc.op = "diff" /\ calc.stage = "listed"
    /\ calc' = [calc EXCEPT !.same = SameFiles(calc.R, calc.L),
                            !.different = DifferentFiles(calc.R, calc.L),
                            !.stage = "split"]
    /\ UNCHANGED passVars

\* lines 335-354: the branch each name of different_files takes
Classify ==
    /\ calc.op = "diff" /\ calc.stage = "split"
    /\ calc' = [calc EXCEPT
                  !.remote_only = {n \in calc.different : IsRemoteOnly(n, calc.R)},
                  !.local_only = {n \in calc.different : ~IsRemoteOnly(n, calc.R)},
                  !.stage = "classified"]
    /\ UNCHANGED passVars

NextDiff == Split \/ Classify

SpecDiff == InitDiff /\ [][NextDiff]_vars

(***************************************************************************)
(* The properties.                                                         *)
(***************************************************************************)
NoTransfer == downloads = {} /\ creates = {} /\ updates = {}

Moved == downloads \cup creates \cup updates

CompareNow(p) ==
    Modified(compare_files(
        [file |-> local[p], name |-> p[Len(p)],
         modifiedTime |-> get_local_file_timestamp(local[p])],
        [Item(p, p[Len(p)], remote[p])
           EXCEPT !.modifiedTime = Seconds(datetime_timestamp[@])]))

OnBothSides == {p \in Paths : local[p].kind # "none" /\ remote[p].kind # "none"}

\* a pass that ran to its end and changed nothing: every later pass finds the
\* same trees and does the same
Settled ==
    /\ status = "done" /\ pass >= 2 /\ ~prev_raised
    /\ local = snap.local /\ remote = snap.remote

\* C2 as stated: once repeated passes change nothing more, every name present
\* on both sides compares as unchanged.
C2_SettledPairsUnchanged ==
    Settled => \A p \in OnBothSides : CompareNow(p) = "False"

LocalFilePaths == {p \in Paths : local[p].kind = "file"}

RemoteFilePaths == {p \in Paths : remote[p].kind = "file"}

\* a name on both sides is a directory on both or a file on both
KindsAgree ==
    \A p \in OnBothSides : local[p].kind = "dir" <=> remote[p].kind = "folder"

\* C3 as stated, where no name is a file on one side and a directory on the
\* other: after a pass that ran to its end with uploads enabled, the local
\* tree and the remote tree hold the same file paths.
C3_SameFilePathsAfterPass ==
    (status = "done" /\ ~Truthy(download_only) /\ KindsAgree)
        => LocalFilePaths = RemoteFilePaths

\* C4: once a pass has run to its end, every name a listing of the pass found
\* on the remote side only, as a file with content C and time T, is a local
\* file with content C whose modification time is T cut to the second.
C4_DownloadConvergence ==
    status = "done" =>
        \A e \in expect :
            local[e.path] = [kind |-> "file", content |-> e.content, ms |-> 1000 * e.sec]

\* a pass has run to its end after finding a remote-only file in a
\* subdirectory
C4_Witness ==
    /\ status = "done"
    /\ \E e \in expect : Len(e.path) = 2 /\ e.content = 2 /\ e.path \in downloads

\* C5: in download-only mode no create and no update reaches the remote store,
\* upload_file and upload_folder return False without raising, a local-only
\* directory is not created remotely and synchronize is not called for it.
C5_DownloadOnlySuppression ==
    Truthy(download_only) =>
        /\ creates = {} /\ updates = {}
        /\ remote = snap.remote
        /\ upload.ret \in {"", "False"}
        /\ upload.fn = "upload_folder" => remote[upload.path].kind = "none"
        /\ \A i \in 1..Len(stack) : stack[i].via # "local_only"

\* a download-only pass has run to its end over a local-only file and a
\* local-only directory
C5_Witness ==
    /\ Truthy(download_only) /\ status = "done"
    /\ upload.fn = "upload_folder" /\ upload.ret = "False"
    /\ \E n \in Names : local[<<n>>].kind = "file" /\ remote[<<n>>].kind = "none"

\* the comparison of the last name was made of a file whose time differs from
\* the remote's and whose fingerprint is the remote checksum
SameContentOtherTime ==
    /\ last.modified # "" /\ last.lm >= 0 /\ last.fnf = ""
    /\ last.md5 /\ last.same_md5
    /\ last.lm # last.rm

\* C6: a name on both sides whose remote entry carries a checksum equal to the
\* local fingerprint, the times differing, compares as unchanged, and is
\* neither downloaded nor uploaded.
C6_ContentEqualityOverride ==
    SameContentOtherTime =>
        /\ last.modified = "False" /\ last.act = "none"
        /\ last.path \notin Moved
        /\ local[last.path] = snap.local[last.path]
        /\ remote[last.path] = snap.remote[last.path]

\* the remote copy is the later one by its time and equal by its checksum
C6_Witness == SameContentOtherTime /\ last.lm < last.rm /\ status = "done"

\* the comparison of the last name found the local time strictly greater and
\* no checksum that matches
LocalNewer ==
    /\ last.modified # "" /\ last.lm >= 0 /\ last.fnf = "" /\ last.act # "raise"
    /\ last.lm > last.rm
    /\ ~(last.md5 /\ last.same_md5)

C7_MissingLocalRace ==
    last.fnf # "" =>
        /\ last.modified = "remote"
        /\ last.act = IF remote[last.path].kind = "folder" THEN "recurse" ELSE "download"
        /\ (last.act = "download" /\ faulted = "") => last.path \in downloads
        /\ last.act = "recurse" =>
              \/ \E i \in 1..Len(stack) : stack[i].local_path = last.path
              \/ \E i \in 1..Len(visited) : visited[i] = last.path

\* the local file went between the read of its mtime, which made it the later
\* one, and the read of its fingerprint; it was downloaded and the pass ended
C7_Witness ==
    /\ last.fnf = "open" /\ last.lm > last.rm
    /\ last.path \in downloads
    /\ status = "done"

\* C8: the names of the two listings fall into three groups, pairwise
\* disjoint, whose union is L \cup R: same_files is L \cap R, the names of
\* different_files the remote listing holds are R \ L, the others L \ R.
C8_SetPartition ==
    (calc.op = "diff" /\ calc.stage = "classified") =>
        /\ calc.same = calc.L \cap calc.R
        /\ calc.local_only = calc.L \ calc.R
        /\ calc.remote_only = calc.R \ calc.L
        /\ calc.same \cap calc.local_only = {}
        /\ calc.same \cap calc.remote_only = {}
        /\ calc.local_only \cap calc.remote_only = {}
        /\ calc.same \cup calc.local_only \cup calc.remote_only = calc.L \cup calc.R

\* two listings that share a name and have each a name of their own were split
C8_Witness ==
    /\ calc.op = "diff" /\ calc.stage = "classified"
    /\ calc.same # {} /\ calc.local_only # {} /\ calc.remote_only # {}

\* a text of the form YYYY-MM-DDTHH:MM:SSZ: no fraction, a trailing Z
WellFormed(text) ==
    /\ Len(text) = 20
    /\ text[5] = "-" /\ text[8] = "-" /\ text[11] = "T"
    /\ text[14] = ":" /\ text[17] = ":" /\ text[20] = "Z"
    /\ \A i \in (1..19) \ {5, 8, 11, 14, 17} : IsDigit(text[i])

RoundTrip ==
    /\ calc.stage # "raised"
    /\ WellFormed(calc.text)
    /\ calc.stage = "back" => calc.back = calc.t

\* C9 as stated: every timestamp t >= 0 is written as a UTC text with a
\* trailing Z and no fraction, and that text is read back as t.
C9_RoundTripEveryTimestamp ==
    (calc.op = "codec" /\ calc.stage # "t") => RoundTrip

\* C9: every timestamp t from 0 to the last second of the year 9999 is
\* written as a UTC text with a trailing Z and no fraction, and that text is
\* read back as t.
C9_RoundTripToYear9999 ==
    (calc.op = "codec" /\ calc.stage # "t" /\ calc.t.day <= LastDay) => RoundTrip

\* the last second of the 29th of February 2000 went there and back
C9_Witness ==
    /\ calc.op = "codec" /\ calc.stage = "back"
    /\ calc.t = [day |-> DayOf(2000, 2, 29), sod |-> 86399, us |-> 0]
    /\ calc.back = calc.t

\* C11 as stated: with uploads enabled, when a listed local-only file is gone
\* by the time upload_file reads it, upload_file returns False without raising
\* and the visit goes on.
C11_UploadLocalFailureCaught ==
    (/\ ~Truthy(download_only)
     /\ upload.fn = "upload_file"
     /\ local[upload.path].kind = "none")
        => upload.ret = "False" /\ status # "raised"

Visited == {visited[i] : i \in 1..Len(visited)}

\* the entries of the visited directories that are on the local side only
LocalOnlyLeft ==
    {p \in Paths : /\ local[p].kind # "none" /\ remote[p].kind = "none"
                   /\ Parent(p) \in Visited}

\* the step at which files().create fails: the upload returns False, nothing
\* is raised, nothing is entered, the store is as it was, and the names the
\* visit and the enclosing visits had left are all still to come
CreateFailureContained ==
    (faulted = "" /\ faulted' = "create") =>
        /\ upload'.fn \in {"upload_file", "upload_folder"} /\ upload'.ret = "False"
        /\ status' = "running"
        /\ remote' = remote /\ creates' = creates
        /\ Len(stack') = Len(stack)
        /\ \A i \in 1..(Len(stack) - 1) : stack'[i] = stack[i]
        /\ stack'[Len(stack)].same_left = Top.same_left
        /\ stack'[Len(stack)].diff_left
              = Top.diff_left \ {upload'.path[Len(upload'.path)]}
        /\ stack'[Len(stack)].pc = "loop"

\* C12: when files().create fails for a local-only file or directory, the
\* upload returns False without raising, the directory is not entered, and
\* the other names of the visit and of the enclosing visits are still
\* processed: a pass that ends has left at most that one name unsent and has
\* downloaded every remote-only file it listed.
C12_CreateFailureContained ==
    /\ [][CreateFailureContained]_vars
    /\ [](faulted = "create" /\ status = "done" =>
            /\ Cardinality(LocalOnlyLeft) <= 1
            /\ \A e \in expect : local[e.path].kind = "file")

\* a create failed, a later upload went through, and the pass ran to its end
C12_Witness ==
    /\ faulted = "create" /\ status = "done"
    /\ Cardinality(LocalOnlyLeft) = 1
    /\ upload.ret = "uploaded" /\ upload.path \notin LocalOnlyLeft

\* the step at which a download fails, at get_media, at the write of the
\* local file or at files().get: the error leaves every visit at once, the store is as it was, and what the
\* pass had downloaded and created before stays as it is
DownloadFailurePropagates ==
    (faulted = "" /\ faulted' \in {"content", "metadata"}) =>
        /\ status' = "raised"
        /\ error' \in {"HttpError", "IsADirectoryError", "FileNotFoundError"}
        /\ stack' = <<>>
        /\ remote' = remote /\ creates' = creates /\ downloads' = downloads
        /\ \A p \in downloads : local'[p] = local[p]

\* C13: a download that fails is caught nowhere: the error leaves the visit
\* and the pass, the names not yet reached are never processed, and the
\* transfers made before stay as they were.
C13_DownloadFailurePropagates ==
    /\ [][DownloadFailurePropagates]_vars
    /\ [](status = "raised" => stack = <<>>)

\* with uploads enabled, the download of a file in a remote folder failed
\* while a local-only file of the directory above was still to be sent
C13_Witness ==
    /\ status = "raised" /\ faulted \in {"content", "metadata"}
    /\ ~Truthy(download_only)
    /\ Len(visited) = 2
    /\ \E n \in Names : /\ local[<<n>>].kind = "file" /\ snap.local[<<n>>].kind = "file"
                        /\ remote[<<n>>].kind = "none"

\* the last name compared was decided "remote" and its remote entry is a file
RemoteNewerFile == last.modified = "remote" /\ remote[last.path].kind = "file"

\* the local file holds the remote content at the remote time cut to the
\* second, so that the two times are equal as compare_files reads them
UpdatedFromRemote(p) ==
    /\ local[p] = [kind |-> "file", content |-> remote[p].content,
                   ms |-> 1000 * (remote[p].ms \div 1000)]
    /\ get_local_file_timestamp(local[p])
          = Seconds(datetime_timestamp[wire_time[remote[p].ms]])
    /\ CompareNow(p) = "False"

\* C14 as stated: a name on both sides whose remote entry is a file and whose
\* decision is "remote" is downloaded; the local file gets the remote content
\* and the remote time, and the next comparison finds the times equal.
C14_RemoteNewerUpdate ==
    RemoteNewerFile =>
        /\ last.act = "download" /\ last.path \in downloads
        /\ UpdatedFromRemote(last.path)

\* C14: a name on both sides whose remote entry is a file, whose local entry
\* is not a directory and whose decision is "remote" is downloaded; the local
\* file gets the remote content and the remote time, and the next comparison
\* finds the times equal.
C14_RemoteNewerUpdateOfFile ==
    (RemoteNewerFile /\ local[last.path].kind # "dir") =>
        /\ last.act = "download" /\ last.path \in downloads
        /\ UpdatedFromRemote(last.path)

\* a local file was replaced by the later remote file of other content
C14_Witness ==
    /\ RemoteNewerFile /\ status = "done"
    /\ snap.local[last.path].kind = "file"
    /\ snap.local[last.path].content # remote[last.path].content
    /\ last.path \in downloads

\* the directories, of either side, and the longest path to one
Directories ==
    {p \in Paths : local[p].kind = "dir" \/ remote[p].kind = "folder"}

DirectoryDepth ==
    IF Directories = {} THEN 0
    ELSE CHOOSE d \in 0..MaxDepth :
            /\ \E p \in Directories : Len(p) = d
            /\ \A p \in Directories : Len(p) <= d

\* C15: a pass that has begun ends, done or raised; no directory is listed
\* twice in a pass, and the calls of synchronize in progress are never more
\* than the root's plus one for each level of directories.
C15_Termination ==
    /\ (status = "running") ~> (status \in {"done", "raised"})
    /\ [](\A i, j \in 1..Len(visited) : visited[i] = visited[j] => i = j)
    /\ [](Len(stack) <= 1 + DirectoryDepth)
    /\ [](\A i \in 1..Len(stack) : Len(stack[i].local_path) = i - 1)

\* a pass ended after a visit two calls deep
C15_Witness ==
    /\ status = "done" /\ pass = 2
    /\ \E i \in 1..Len(visited) : Len(visited[i]) = 1
    /\ DirectoryDepth = 1

\* C16 as stated: given --download-only False the uploads make their create
\* calls; given True, or not given, they return False and call nothing.
C16_ModeSelection ==
    upload.fn # "" =>
        /\ download_only = ArgText("False") =>
              upload.ret # "False" /\ upload.path \in creates
        /\ download_only \in {ArgDefault, ArgText("True")} =>
              upload.ret = "False" /\ creates = {}

\* a step of the pass, not of the environment, keeps every entry of both
\* sides, as a directory if it was one and as a file if it was one
KeepsEntries ==
    vanish_left' = vanish_left =>
        \A p \in Paths :
           /\ local[p].kind # "none" => local'[p].kind = local[p].kind
           /\ remote[p].kind # "none" => remote'[p].kind = remote[p].kind

\* C17: no step of a pass, in either mode, a call failing or not, removes or
\* renames an entry of either side; as long as nothing else removes one, both
\* sides hold every path they held when the pass began.
C17_NoDeletion ==
    /\ [][KeepsEntries]_vars
    /\ [](vanish_left = 1 =>
            \A p \in Paths :
               /\ snap.local[p].kind # "none" => local[p].kind = snap.local[p].kind
               /\ snap.remote[p].kind # "none" => remote[p].kind = snap.remote[p].kind)

\* with uploads enabled, a download wrote over a local file and then failed at
\* files().get: the pass ended raised, the file still there
C17_Witness ==
    /\ status = "raised" /\ faulted = "metadata" /\ vanish_left = 1
    /\ ~Truthy(download_only)
    /\ \E p \in Paths : snap.local[p].kind = "file" /\ local[p] # snap.local[p]

\* the local files of the start of the pass whose content or mtime is no
\* longer what it was
Overwritten == {p \in Paths : snap.local[p].kind = "file" /\ local[p] # snap.local[p]}

\* C18: a local file that existed when the pass began has another content or
\* mtime only if its name is on the remote side too, the remote time is
\* strictly later, to the second, and the remote entry has no checksum or a
\* checksum of other content; it is then still a file.
C18_OverwrittenOnlyByNewerRemote ==
    \A p \in Overwritten :
       /\ snap.remote[p].kind = "file"
       /\ snap.remote[p].ms \div 1000 > snap.local[p].ms \div 1000
       /\ ~snap.remote[p].md5 \/ snap.remote[p].content # snap.local[p].content
       /\ local[p].kind = "file"

\* a local file was replaced by a later remote file whose checksum differs
C18_Witness ==
    /\ status = "done"
    /\ \E p \in Overwritten : snap.remote[p].md5 /\ local[p].content = 2

=============================================================================
